---- MODULE Spec2Model ----
(***************************************************************************)
(* Forecasting models, walk-forward backtest, model selection, feature    *)
(* table, finance calculator and the two storage backends of the          *)
(* bio-energy dashboard (bia_core/models.py, eval.py, features.py,        *)
(* finance.py, auth_inmemory.py, supabase_store.py).                      *)
(*                                                                         *)
(* Numbers.  The Python code computes in binary floating point.  Here     *)
(* every real quantity is a fixed-point integer with SCALE units per 1.0, *)
(* products are truncated after each multiplication, and +infinity is the *)
(* value Inf, compared through ScoreLess.  waste_tons of a feature row is *)
(* a whole number of tons (schemas.py admits only positive logs, and      *)
(* features.py fills the missing days with 0).                            *)
(***************************************************************************)
EXTENDS Integers, Sequences, FiniteSets, TLC

\* three decimal digits
SCALE == 10 * 10 * 10

\* float('inf'): no finite score equals it, and nothing is greater.
Inf == -1

\* float('nan'): the mean of an empty array
NaN == -2

\* a < b on scores (finite scores are >= 0, Inf is +infinity)
ScoreLess(a, b) == a # Inf /\ (b = Inf \/ a < b)

\* None, as a record so that it compares with the records it stands in for
None == [kind |-> "None"]

Max(a, b) == IF a >= b THEN a ELSE b
Min(a, b) == IF a <= b THEN a ELSE b
Abs(a) == IF a >= 0 THEN a ELSE 0 - a

RECURSIVE SumSeq(_)
SumSeq(s) == IF Len(s) = 0 THEN 0 ELSE Head(s) + SumSeq(Tail(s))

\* df.iloc[:n]
ILocHead(s, n) == SubSeq(s, 1, Min(n, Len(s)))
\* df.iloc[a:b] (0-based, half-open)
ILocSlice(s, a, b) == SubSeq(s, a + 1, Min(b, Len(s)))
\* series.tail(n)
TailN(s, n) == SubSeq(s, Max(1, Len(s) - n + 1), Len(s))

\* series.mean() in fixed point (the series is not empty)
MeanFP(s) == (SumSeq(s) * SCALE) \div Len(s)

\* x ** t for a fixed-point x >= 0 and an integer t >= 0; above cap >= 1.0 the
\* power stops growing (it stays above cap)
RECURSIVE PowFP(_, _, _)
PowFP(x, t, cap) ==
    IF t = 0 THEN SCALE
    ELSE LET r == PowFP(x, t - 1, cap)
         IN IF r > cap THEN r ELSE (r * x) \div SCALE

\* the largest root r in lo..hi with r ** p <= ratio (lo ** p <= ratio is given)
RECURSIVE RootFP(_, _, _, _)
RootFP(ratio, p, lo, hi) ==
    IF lo >= hi THEN lo
    ELSE LET mid == (lo + hi + 1) \div 2
         IN IF PowFP(mid, p, Max(ratio, SCALE)) <= ratio
            THEN RootFP(ratio, p, mid, hi)
            ELSE RootFP(ratio, p, lo, mid - 1)

(***************************************************************************)
(* Feature tables.  A table is the waste_tons column of the output of     *)
(* create_forecast_features: one row per calendar day, so the row index   *)
(* is the date.  Step(L, a, b) has a tons on each day of the first half   *)
(* and b tons on each later day; Saw(L, a, b) alternates b, a, a.         *)
(***************************************************************************)
Step(L, a, b) == [i \in 1..L |-> IF 2 * i <= L THEN a ELSE b]
Saw(L, a, b) == [i \in 1..L |-> IF i % 3 = 0 THEN b ELSE a]
Bump(L, a) == [i \in 1..L |-> IF i = L THEN a + 1 ELSE a]

MaxQty == 6
ShortRows == 5
LongRows == 21

Empty == <<>>
Short == Step(ShortRows, 3, 3)
Ten == Step(10, 2, MaxQty)
Flat14 == Step(14, 3, 3)
Zero14 == Step(14, 0, 4)
Bump14 == Bump(14, 3)
Up21 == Step(LongRows, 2, MaxQty)
Down21 == Step(LongRows, MaxQty, 1)
Saw21 == Saw(LongRows, 4, 1)

Tables == {Empty, Short, Ten, Flat14, Zero14, Bump14, Up21, Down21, Saw21}

(***************************************************************************)
(* BaseModel and DeterministicModel (models.py)                           *)
(***************************************************************************)
DEFAULT_GROWTH_RATE == SCALE \div 500   \* 0.002
GROWTH_CAP == SCALE \div 100            \* 0.01
RECENT_DAYS == 7
GROWTH_MIN_ROWS == 14

\* the raw root saturates at 2.0, far above 1 + GROWTH_CAP
ROOT_MAX == 2 * SCALE

\* BaseModel.__init__ and the fields the subclasses add, in one record shape
NewModel(kind, default_growth_rate) ==
    [kind |-> kind,
     is_fitted |-> FALSE,
     model_params |-> None,
     default_growth_rate |-> default_growth_rate,
     base_value |-> 0,
     growth_rate |-> default_growth_rate,
     fitted_model |-> None,
     base_forecast |-> None,
     fell_back |-> FALSE]

\* DeterministicModel(default_growth_rate)
NewDeterministic(default_growth_rate) == NewModel("DeterministicModel", default_growth_rate)

\* max(-0.01, min(0.01, growth_rate))
CapGrowth(g) == Max(0 - GROWTH_CAP, Min(GROWTH_CAP, g))

\* (1 + total_growth) ** (1 / total_periods) - 1 with
\* 1 + total_growth = second_half_avg / first_half_avg, first_half_avg > 0
RawGrowth(first, second, periods) ==
    LET ratio == (SumSeq(second) * Len(first) * SCALE) \div (SumSeq(first) * Len(second))
    IN RootFP(ratio, periods, 0, ROOT_MAX) - SCALE

\* the growth rate DeterministicModel.fit derives from a non-empty table
FitGrowthRate(m, t) ==
    IF Len(t) >= GROWTH_MIN_ROWS
    THEN LET mid_point == Len(t) \div 2
             first == ILocHead(t, mid_point)
             second == ILocSlice(t, mid_point, Len(t))
         IN IF SumSeq(first) > 0
            THEN CapGrowth(RawGrowth(first, second, Len(t) - mid_point))
            ELSE m.default_growth_rate
    ELSE m.default_growth_rate

\* DeterministicModel.fit
DetFit(m, t) ==
    IF Len(t) = 0
    THEN [m EXCEPT !.base_value = SCALE,
                   !.growth_rate = m.default_growth_rate,
                   !.is_fitted = TRUE]
    ELSE LET base == MeanFP(TailN(t, RECENT_DAYS))
             g == FitGrowthRate(m, t)
         IN [m EXCEPT !.base_value = base,
                      !.growth_rate = g,
                      !.model_params = [kind |-> "det", base_value |-> base, growth_rate |-> g],
                      !.is_fitted = TRUE]

\* the forecast value as computed, without max(0, .)
NoFloor(v) == v

\* max(0, value)
Floor0(v) == Max(0, v)

\* [1.0] * forecast_days
Ones(n) == [t \in 1..Max(n, 0) |-> SCALE]

\* base_value * (1 + growth_rate) ** t
DetValue(m, t) == (m.base_value * PowFP(SCALE + m.growth_rate, t, SCALE * SCALE)) \div SCALE

(***************************************************************************)
(* SARIMAModel (models.py).  statsmodels is outside the repository: its   *)
(* fit is a fixed function of the series it is given.  lib.available is   *)
(* STATSMODELS_AVAILABLE; SARIMAX(...).fit raises exactly on the series   *)
(* whose length is in lib.fit_raises; the forecast of a fitted process is *)
(* the straight line through the last two observations (it can go below   *)
(* 0, as a SARIMA forecast can).                                          *)
(***************************************************************************)
SARIMA_MIN_ROWS == 10

NewSARIMA == NewModel("SARIMAModel", DEFAULT_GROWTH_RATE)

\* class BaseModel itself: fit and predict raise NotImplementedError
NewBase == NewModel("BaseModel", DEFAULT_GROWTH_RATE)

\* ts_data.std() == 0
\* a series that is never taken to have zero variance
NeverZeroVariance(t) == FALSE

ZeroVariance(t) == \A i \in 1..Len(t) : t[i] = t[1]

\* self.base_forecast = DeterministicModel(); self.base_forecast.fit(features_df)
FallBack(m, t) ==
    [m EXCEPT !.base_forecast = DetFit(NewDeterministic(DEFAULT_GROWTH_RATE), t),
              !.is_fitted = TRUE,
              !.fell_back = TRUE]

\* the seasonal branch of SARIMAModel.fit: SARIMAX(ts_data, ...).fit(disp=False)
SeasonalFit(m, t) ==
    [m EXCEPT !.fitted_model = [kind |-> "SARIMAXResults", endog |-> t],
              !.model_params = [kind |-> "sarima", nobs |-> Len(t)],
              !.is_fitted = TRUE,
              !.fell_back = FALSE]

\* SARIMAModel.fit; fell_back records whether this call took a fallback branch
SarimaFit(m, t, lib) ==
    IF \/ ~lib.available                  \* if not STATSMODELS_AVAILABLE
       \/ Len(t) < SARIMA_MIN_ROWS        \* if features_df.empty or len(features_df) < 10
       \/ ZeroVariance(t)                 \* if ts_data.std() == 0
       \/ Len(t) \in lib.fit_raises       \* except Exception
    THEN FallBack(m, t)
    ELSE SeasonalFit(m, t)

\* fitted_model.forecast(steps)[t]
SarimaxForecast(fm, t) ==
    LET y == fm.endog
        n == Len(y)
    IN (y[n] + t * (y[n] - y[n - 1])) * SCALE

\* fitted_model.forecast(steps=forecast_days), each value floored at 0
SeasonalValues(fm, n) == [t \in 1..Max(n, 0) |-> Floor0(SarimaxForecast(fm, t))]

\* a list predict returns, with the branch that produced it
Forecast(values, path) == [exc |-> "none", values |-> values, path |-> path]

\* DeterministicModel.predict
DetPredict(m, n) ==
    IF ~m.is_fitted THEN Forecast(Ones(n), "unfitted")
    ELSE Forecast([t \in 1..Max(n, 0) |-> Floor0(DetValue(m, t))], "deterministic")

\* SARIMAModel.predict
SarimaPredict(m, n) ==
    IF ~m.is_fitted THEN Forecast(Ones(n), "unfitted")
    ELSE IF m.base_forecast # None
         THEN Forecast(DetPredict(m.base_forecast, n).values, "fallback")
    ELSE IF m.fitted_model = None THEN Forecast(Ones(n), "nomodel")
    ELSE Forecast(SeasonalValues(m.fitted_model, n), "seasonal")

\* model.fit(features_df), dispatched on the class; exc is the exception
\* raised ("none": the call returned)
Fit(m, t, lib) ==
    IF m.kind = "DeterministicModel" THEN [exc |-> "none", m |-> DetFit(m, t)]
    ELSE IF m.kind = "SARIMAModel" THEN [exc |-> "none", m |-> SarimaFit(m, t, lib)]
    ELSE [exc |-> "NotImplementedError", m |-> m]

\* model.predict(forecast_days), dispatched on the class
Predict(m, n) ==
    IF m.kind = "DeterministicModel" THEN DetPredict(m, n)
    ELSE IF m.kind = "SARIMAModel" THEN SarimaPredict(m, n)
    ELSE [exc |-> "NotImplementedError", values |-> <<>>, path |-> "raise"]

(***************************************************************************)
(* calculate_mape, calculate_mae and backtest_model (eval.py)             *)
(***************************************************************************)
DEFAULT_TEST_SIZE == 7
DEFAULT_MIN_TRAIN_SIZE == 7

\* the date column of a table: day numbers 0, 1, ...
Dates(t) == [i \in 1..Len(t) |-> i - 1]

RECURSIVE SumAbsErr(_, _, _)
SumAbsErr(actual, predicted, i) ==
    IF i = 0 THEN 0
    ELSE SumAbsErr(actual, predicted, i - 1) + Abs(actual[i] * SCALE - predicted[i])

\* calculate_mae (both lists have one length, not 0)
calculate_mae(actual, predicted) == SumAbsErr(actual, predicted, Len(actual)) \div Len(actual)

RECURSIVE SumPctErr(_, _, _)
SumPctErr(actual, predicted, i) ==
    IF i = 0 THEN 0
    ELSE SumPctErr(actual, predicted, i - 1)
         + (IF actual[i] = 0 THEN 0
            ELSE (Abs(actual[i] * SCALE - predicted[i]) * 100) \div actual[i])

\* the percentage errors averaged over every index, the zero actuals included
MapeOverAll(actual, predicted) ==
    IF Len(actual) = 0 THEN Inf
    ELSE IF \A i \in 1..Len(actual) : actual[i] = 0 THEN calculate_mae(actual, predicted)
    ELSE SumPctErr(actual, predicted, Len(actual)) \div Len(actual)

\* calculate_mape (both lists have one length)
calculate_mape(actual, predicted) ==
    LET nz == {i \in 1..Len(actual) : actual[i] # 0}
    IN IF Len(actual) = 0 THEN Inf
       ELSE IF nz = {} THEN calculate_mae(actual, predicted)
       ELSE SumPctErr(actual, predicted, Len(actual)) \div Cardinality(nz)

\* a call of calculate_mape with any two lists: the length check first
MapeCall(actual, predicted) ==
    IF Len(actual) # Len(predicted) THEN [exc |-> "ValueError", value |-> Inf]
    ELSE [exc |-> "none", value |-> calculate_mape(actual, predicted)]

\* a call of calculate_mae with any two lists (the mean of no numbers is nan)
MaeCall(actual, predicted) ==
    IF Len(actual) # Len(predicted) THEN [exc |-> "ValueError", value |-> Inf]
    ELSE IF Len(actual) = 0 THEN [exc |-> "none", value |-> NaN]
    ELSE [exc |-> "none", value |-> calculate_mae(actual, predicted)]

\* range(min_train_size, max_train_end, test_size): the last boundary is left out
MaxTrainEndExclusive(t, test_size) == Len(t) - test_size - 1

\* max_train_end = len(features_df) - test_size
MaxTrainEnd(t, test_size) == Len(t) - test_size

\* the early return of backtest_model
InsufficientHistory(t, test_size, min_train_size) == Len(t) < min_train_size + test_size

\* return 0.0: a table too short to test looks like a perfect forecast
InsufficientScoreZero == 0 * SCALE

\* what backtest_model returns for a table with insufficient history
InsufficientScore == Inf

\* A loop that fits and predicts on a copy of the model: the caller's model is
\* left as it was passed in.
CollectWindowOnCopy(acc, m, test_data, win) ==
    LET forecast == Predict(m, Len(test_data))
    IN IF forecast.exc # "none"
       THEN [acc EXCEPT !.windows = Append(acc.windows, win),
                        !.fit_calls = acc.fit_calls + 1]
       ELSE [m |-> acc.m,
             all_actuals |-> acc.all_actuals \o test_data,
             all_predictions |->
                 acc.all_predictions \o ILocHead(forecast.values, Len(test_data)),
             windows |-> Append(acc.windows, [win EXCEPT !.compared = TRUE]),
             fit_calls |-> acc.fit_calls + 1]

\* the try block of the loop of backtest_model once the model is fitted:
\* predict, then extend all_actuals and all_predictions
CollectWindow(acc, m, test_data, win) ==
    LET forecast == Predict(m, Len(test_data))
    IN IF forecast.exc # "none"
       THEN [acc EXCEPT !.m = m, !.windows = Append(acc.windows, win),
                        !.fit_calls = acc.fit_calls + 1]
       ELSE [m |-> m,
             all_actuals |-> acc.all_actuals \o test_data,
             all_predictions |->
                 acc.all_predictions \o ILocHead(forecast.values, Len(test_data)),
             windows |-> Append(acc.windows, [win EXCEPT !.compared = TRUE]),
             fit_calls |-> acc.fit_calls + 1]

\* A loop whose except branch pools the window all the same, with the actual
\* values standing in for the forecast.
FitWindowPoolsFailed(acc, fitted, test_data, win) ==
    IF fitted.exc # "none"
    THEN [acc EXCEPT !.all_actuals = acc.all_actuals \o test_data,
                     !.all_predictions = acc.all_predictions \o test_data,
                     !.windows = Append(acc.windows, win),
                     !.fit_calls = acc.fit_calls + 1]
    ELSE CollectWindow(acc, fitted.m, test_data, win)

\* the try block of the loop of backtest_model: fit, and go on if fit returned
FitWindow(acc, fitted, test_data, win) ==
    IF fitted.exc # "none"
    THEN [acc EXCEPT !.windows = Append(acc.windows, win),
                     !.fit_calls = acc.fit_calls + 1]
    ELSE CollectWindow(acc, fitted.m, test_data, win)

\* One iteration of the loop of backtest_model, for train_end; acc holds the
\* model, all_actuals, all_predictions and the log of the windows taken.
BacktestWindow(acc, t, train_end, test_size, lib) ==
    IF Len(ILocSlice(t, train_end, train_end + test_size)) = 0 THEN acc
    ELSE FitWindow(acc, Fit(acc.m, ILocHead(t, train_end), lib),
                   ILocSlice(t, train_end, train_end + test_size),
                   [train_dates |-> ILocHead(Dates(t), train_end),
                    test_dates |-> ILocSlice(Dates(t), train_end, train_end + test_size),
                    compared |-> FALSE])

\* for train_end in range(train_end, max_train_end + 1, test_size)
RECURSIVE BacktestLoop(_, _, _, _, _)
BacktestLoop(acc, t, train_end, test_size, lib) ==
    IF train_end > MaxTrainEnd(t, test_size) THEN acc
    ELSE BacktestLoop(BacktestWindow(acc, t, train_end, test_size, lib),
                      t, train_end + test_size, test_size, lib)

\* the end of backtest_model: +infinity without pairs, else the pooled MAPE
Scored(acc) ==
    [m |-> acc.m, all_actuals |-> acc.all_actuals, all_predictions |-> acc.all_predictions,
     windows |-> acc.windows, fit_calls |-> acc.fit_calls,
     score |-> IF Len(acc.all_actuals) = 0 THEN Inf
               ELSE calculate_mape(acc.all_actuals, acc.all_predictions)]

\* backtest_model(model, features_df, test_size, min_train_size), test_size >= 1
backtest_model(m, t, test_size, min_train_size, lib) ==
    IF InsufficientHistory(t, test_size, min_train_size)
    THEN [m |-> m, all_actuals |-> <<>>, all_predictions |-> <<>>, windows |-> <<>>,
          fit_calls |-> 0, score |-> InsufficientScore]
    ELSE Scored(BacktestLoop([m |-> m, all_actuals |-> <<>>, all_predictions |-> <<>>,
                              windows |-> <<>>, fit_calls |-> 0],
                             t, min_train_size, test_size, lib))

(***************************************************************************)
(* ModelSelector (models.py).  The selector holds its candidates in       *)
(* models (instances are named by their position), best_model is 0 for    *)
(* None, performance_scores is a dict keyed by class name.                *)
(***************************************************************************)
SELECT_MIN_ROWS == 10

\* ModelSelector.__init__
NewSelector == [best_model |-> 0, performance_scores |-> <<>>]

\* type(model).__name__
TypeName(m) == m.kind

\* d[key] = value
DictSet(d, key, value) ==
    [k \in DOMAIN d \cup {key} |-> IF k = key THEN value ELSE d[k]]

\* if score <= best_score: a tie moves the choice to the later candidate
BetterOrEqual(score, best_score) == score = best_score \/ ScoreLess(score, best_score)

\* if score < best_score
Better(score, best_score) == ScoreLess(score, best_score)

\* if features_df.empty: only an empty table skips the evaluation
TooFewRowsEmptyOnly(t) == Len(t) = 0

\* if len(features_df) < 10
TooFewRows(t) == Len(t) < SELECT_MIN_ROWS

\* best_model = self.best_model or self.models[0]: the choice of an earlier call
\* survives when no candidate scores below infinity
InitialBestStale(sel) == IF sel.best_model # 0 THEN sel.best_model ELSE 1

\* best_model = self.models[0]
InitialBest(sel) == 1

\* except ValueError as e: a NotImplementedError leaves the loop
CatchesValueErrorOnly(exc) == exc = "ValueError"

\* except Exception as e: the handler of the loop catches every exception
Catches(exc) == TRUE

\* the handler: self.performance_scores[type(model).__name__] = float('inf')
RecordFailure(st, i) ==
    [st EXCEPT !.scores = DictSet(st.scores, TypeName(st.models[i]), Inf),
               !.log = Append(st.log, [candidate |-> i, exc |-> "caught", score |-> Inf])]

\* the try block of the loop of select_best_model after the backtest bt
RecordScore(st, i, bt) ==
    [st EXCEPT !.models[i] = bt.m,
               !.scores = DictSet(st.scores, TypeName(st.models[i]), bt.score),
               !.best_score = IF Better(bt.score, st.best_score)
                              THEN bt.score ELSE st.best_score,
               !.best_model = IF Better(bt.score, st.best_score) THEN i ELSE st.best_model,
               !.log = Append(st.log, [candidate |-> i, exc |-> "none", score |-> bt.score]),
               !.fit_calls = st.fit_calls + 1 + bt.fit_calls]

\* the try block of the loop of select_best_model after model.fit(features_df)
AfterFit(st, i, t, lib, fitted) ==
    IF fitted.exc = "none"
    THEN RecordScore(st, i, backtest_model(fitted.m, t, DEFAULT_TEST_SIZE,
                                           DEFAULT_MIN_TRAIN_SIZE, lib))
    ELSE IF Catches(fitted.exc)
    THEN RecordFailure([st EXCEPT !.fit_calls = st.fit_calls + 1], i)
    ELSE [st EXCEPT !.fit_calls = st.fit_calls + 1, !.exc = fitted.exc]

\* One iteration of the loop of select_best_model, for candidate i; st holds the
\* candidates, the score dict, best_score, best_model and the log of the loop
\* (exc: the exception that left the loop, "none" while it runs).
SelectCandidate(st, i, t, lib) == AfterFit(st, i, t, lib, Fit(st.models[i], t, lib))

\* for model in self.models
RECURSIVE SelectLoop(_, _, _, _)
SelectLoop(st, i, t, lib) ==
    IF i > Len(st.models) \/ st.exc # "none" THEN st
    ELSE SelectLoop(SelectCandidate(st, i, t, lib), i + 1, t, lib)

\* the end of select_best_model: self.best_model = best_model; return best_model
\* (when exc left the loop nothing is returned and best_model is not assigned)
Selected(sel, st) ==
    IF st.exc # "none"
    THEN [models |-> st.models, sel |-> [sel EXCEPT !.performance_scores = st.scores],
          chosen |-> 0, log |-> st.log, fit_calls |-> st.fit_calls, exc |-> st.exc]
    ELSE [models |-> st.models,
          sel |-> [best_model |-> st.best_model, performance_scores |-> st.scores],
          chosen |-> st.best_model, log |-> st.log, fit_calls |-> st.fit_calls,
          exc |-> "none"]

\* ModelSelector.select_best_model: the candidates and the selector after the
\* call, the model returned (0: a new DeterministicModel), the log of the loop
\* and the number of fit calls made
select_best_model(sel, ms, t, lib) ==
    IF Len(ms) = 0
    THEN [models |-> ms, sel |-> sel, chosen |-> 0, log |-> <<>>, fit_calls |-> 0,
          exc |-> "none"]
    ELSE IF TooFewRows(t)
    THEN [models |-> ms, sel |-> sel, chosen |-> 1, log |-> <<>>, fit_calls |-> 0,
          exc |-> "none"]
    ELSE Selected(sel, SelectLoop([models |-> ms, scores |-> sel.performance_scores,
                                   best_score |-> Inf, best_model |-> InitialBest(sel),
                                   log |-> <<>>, fit_calls |-> 0, exc |-> "none"],
                                  1, t, lib))

\* ModelSelector.get_performance_summary
get_performance_summary(sel) == sel.performance_scores

(***************************************************************************)
(* The state: the model instances a session holds (the candidates of its  *)
(* ModelSelector), the selector, the statsmodels build, and the last call *)
(* with what it returned.                                                 *)
(*                                                                         *)
(* Spec is a session with a selector over a list of candidates.           *)
(* SpecModel is a session with one model instance and no selector calls:  *)
(* the selector touches a candidate only through fit and backtest_model   *)
(* with the default sizes, which SpecModel applies in any order to more   *)
(* tables and with more sizes.                                            *)
(***************************************************************************)
\* store, db and sessions are the storage side of a deployment: the dict of
\* auth_inmemory.py, the tables of supabase_store.py, and the calls of the
\* sessions that are under way in the in-memory store.
VARIABLES models, selector, lib, ret, store, db, sessions

vars == <<models, selector, lib, ret, store, db, sessions>>

storeVars == <<store, db, sessions>>

\* bcrypt.hashpw(password, bcrypt.gensalt()): checkpw accepts this password only
HashPw(password) == <<"bcrypt", password>>

\* UserProfile(username, password_hash, entity_name, city, waste_type)
UserProfile(username, password_hash, entity_name) ==
    [username |-> username, password_hash |-> password_hash, entity_name |-> entity_name]

\* the store after AuthStore(): the cached dict with the demo user
NewAuthStore ==
    [users |-> [u \in {"demo"} |->
                   UserProfile("demo", HashPw("demo123"), "Demo Bio-energy Corp")],
     waste_logs |-> <<>>]

\* the tables after migrate(): users and waste_logs, no row
NewDatabase == [users |-> {}, waste_logs |-> {}]

\* no session is inside a call of the store
StoreIdle ==
    /\ store = NewAuthStore
    /\ db = NewDatabase
    /\ sessions = <<>>

MaxHorizon == 2
SmallTestSize == 3
SmallMinTrain == 4
LargeMinTrain == 11

WIDE_GROWTH_RATE == SCALE \div 20       \* DeterministicModel(0.05)

ModelLists ==
    {<<NewDeterministic(DEFAULT_GROWTH_RATE), NewSARIMA>>,
     <<NewSARIMA, NewDeterministic(DEFAULT_GROWTH_RATE)>>,
     <<NewDeterministic(DEFAULT_GROWTH_RATE), NewDeterministic(WIDE_GROWTH_RATE)>>,
     <<NewBase, NewDeterministic(DEFAULT_GROWTH_RATE)>>,
     <<>>}

SingleModels ==
    {<<NewDeterministic(DEFAULT_GROWTH_RATE)>>, <<NewDeterministic(WIDE_GROWTH_RATE)>>,
     <<NewSARIMA>>, <<NewBase>>}

Libs ==
    {[available |-> FALSE, fit_raises |-> {}],
     [available |-> TRUE, fit_raises |-> {}],
     [available |-> TRUE, fit_raises |-> {14}]}

\* forecast_days: predict takes any int
Horizons == (0 - MaxHorizon)..MaxHorizon

\* the calls of backtest_model: every table with the default sizes, and the
\* shorter tables with smaller windows and with a training size above 10
BacktestCalls ==
    {<<t, DEFAULT_TEST_SIZE, DEFAULT_MIN_TRAIN_SIZE>> : t \in Tables}
        \cup {<<t, SmallTestSize, SmallMinTrain>> : t \in {Short, Ten, Bump14}}
        \cup {<<t, SmallTestSize, LargeMinTrain>> : t \in {Ten, Bump14}}

SelectorTables == {Short, Ten, Up21, Saw21}

NoRet ==
    [op |-> "none", model |-> 0, table |-> <<>>, n |-> 0, test_size |-> 0,
     min_train_size |-> 0, exc |-> "none", values |-> <<>>, path |-> "none",
     score |-> Inf, windows |-> <<>>, all_actuals |-> <<>>, all_predictions |-> <<>>,
     chosen |-> 0, log |-> <<>>, fit_calls |-> 0]

Init ==
    /\ models \in ModelLists
    /\ selector = NewSelector
    /\ lib \in Libs
    /\ ret = NoRet
    /\ StoreIdle

InitModel ==
    /\ models \in SingleModels
    /\ selector = NewSelector
    /\ lib \in Libs
    /\ ret = NoRet
    /\ StoreIdle

\* models[i].fit(t)
Fitted(i, r) ==
    /\ models' = [models EXCEPT ![i] = r.m]
    /\ ret' = [NoRet EXCEPT !.op = "fit", !.model = i, !.exc = r.exc]
    /\ UNCHANGED <<selector, lib>>
    /\ UNCHANGED storeVars

FitModel(i, t) == Fitted(i, Fit(models[i], t, lib))

\* a predict that keeps the last value it forecast as the new base_value
PredictedAdvancesBase(i, n, r) ==
    /\ models' = [models EXCEPT ![i].base_value =
                      IF Len(r.values) > 0 THEN r.values[Len(r.values)] ELSE @]
    /\ ret' = [NoRet EXCEPT !.op = "predict", !.model = i, !.n = n, !.exc = r.exc,
                            !.values = r.values, !.path = r.path]
    /\ UNCHANGED <<selector, lib>>
    /\ UNCHANGED storeVars

\* models[i].predict(n)
Predicted(i, n, r) ==
    /\ ret' = [NoRet EXCEPT !.op = "predict", !.model = i, !.n = n, !.exc = r.exc,
                            !.values = r.values, !.path = r.path]
    /\ UNCHANGED <<models, selector, lib>>
    /\ UNCHANGED storeVars

PredictModel(i, n) == Predicted(i, n, Predict(models[i], n))

\* backtest_model(models[i], t, test_size, min_train_size)
Backtested(i, t, test_size, min_train_size, r) ==
    /\ models' = [models EXCEPT ![i] = r.m]
    /\ ret' = [NoRet EXCEPT !.op = "backtest", !.model = i, !.table = t,
                            !.test_size = test_size, !.min_train_size = min_train_size,
                            !.score = r.score, !.windows = r.windows,
                            !.all_actuals = r.all_actuals,
                            !.all_predictions = r.all_predictions,
                            !.fit_calls = r.fit_calls]
    /\ UNCHANGED <<selector, lib>>
    /\ UNCHANGED storeVars

BacktestModel(i, t, test_size, min_train_size) ==
    Backtested(i, t, test_size, min_train_size,
               backtest_model(models[i], t, test_size, min_train_size, lib))

\* selector.select_best_model(t)
SelectedBest(t, r) ==
    /\ models' = r.models
    /\ selector' = r.sel
    /\ ret' = [NoRet EXCEPT !.op = "select", !.table = t, !.exc = r.exc,
                            !.chosen = r.chosen, !.log = r.log,
                            !.fit_calls = r.fit_calls]
    /\ UNCHANGED lib
    /\ UNCHANGED storeVars

SelectBestModel(t) == SelectedBest(t, select_best_model(selector, models, t, lib))

Next ==
    \/ \E i \in 1..Len(models), t \in SelectorTables : FitModel(i, t)
    \/ \E t \in SelectorTables : SelectBestModel(t)

Spec == Init /\ [][Next]_vars

NextModel ==
    \/ \E t \in Tables : FitModel(1, t)
    \/ \E n \in Horizons : PredictModel(1, n)
    \/ \E c \in BacktestCalls : BacktestModel(1, c[1], c[2], c[3])

SpecModel == InitModel /\ [][NextModel]_vars

(***************************************************************************)
(* SpecEval: one call of calculate_mape or calculate_mae.  The initial    *)
(* state holds the two lists of the call (ret.op = "call"), the action    *)
(* replaces it by what the call returned.  Actuals are whole tons,        *)
(* predictions are fixed-point.                                           *)
(***************************************************************************)
MaxList == 3

\* every sequence over S of length 0..n
SeqsUpTo(S, n) == UNION {[1..k -> S] : k \in 0..n}

ActualValues == {0, 2, 5}
PredictedValues == {0, 3 * SCALE, 5 * SCALE + SCALE \div 2}

\* the pooled lists of the worked example of the specification
ExampleActual == <<10, 20, 0, 30>>
ExamplePredicted == <<12 * SCALE, 18 * SCALE, 5 * SCALE, 33 * SCALE>>

MetricCalls ==
    {[op |-> "call", actual |-> a, predicted |-> p] :
        a \in SeqsUpTo(ActualValues, MaxList), p \in SeqsUpTo(PredictedValues, MaxList)}
    \cup {[op |-> "call", actual |-> ExampleActual, predicted |-> ExamplePredicted]}

InitEval ==
    /\ models = <<>>
    /\ selector = NewSelector
    /\ lib = [available |-> FALSE, fit_raises |-> {}]
    /\ ret \in MetricCalls
    /\ StoreIdle

\* the call has returned r
Returned(op, r) ==
    /\ ret' = [op |-> op, actual |-> ret.actual, predicted |-> ret.predicted,
               exc |-> r.exc, value |-> r.value]
    /\ UNCHANGED <<models, selector, lib>>
    /\ UNCHANGED storeVars

\* calculate_mape(actual, predicted)
CalculateMape == ret.op = "call" /\ Returned("calculate_mape", MapeCall(ret.actual, ret.predicted))

\* calculate_mae(actual, predicted)
CalculateMae == ret.op = "call" /\ Returned("calculate_mae", MaeCall(ret.actual, ret.predicted))

NextEval == CalculateMape \/ CalculateMae

SpecEval == InitEval /\ [][NextEval]_vars

(***************************************************************************)
(* create_forecast_features (features.py).  An observation is a row of    *)
(* df_logs: a calendar day (a day number) and a quantity in whole tons.   *)
(* A timestamp is a number of hours; the rows of the returned table carry *)
(* date, waste_tons, days_since_start and cumulative_waste (the other     *)
(* columns are computed row by row and add or drop no row).               *)
(***************************************************************************)
HOURS_PER_DAY == 24

\* pd.to_datetime of a date: midnight of that day
to_datetime(d) == d * HOURS_PER_DAY

\* df['date'] = pd.to_datetime(df['date'])
ConvertDates(obs) ==
    [k \in 1..Len(obs) |-> [date |-> to_datetime(obs[k].date), waste_tons |-> obs[k].waste_tons]]

\* the place of row o in the sorted rows s: after every row not later than o
RECURSIVE InsertByDate(_, _)
InsertByDate(s, o) ==
    IF Len(s) = 0 THEN <<o>>
    ELSE IF s[Len(s)].date <= o.date THEN Append(s, o)
    ELSE Append(InsertByDate(SubSeq(s, 1, Len(s) - 1), o), s[Len(s)])

\* df.sort_values('date').reset_index(drop=True)
RECURSIVE SortByDate(_)
SortByDate(obs) ==
    IF Len(obs) = 0 THEN <<>>
    ELSE InsertByDate(SortByDate(SubSeq(obs, 1, Len(obs) - 1)), obs[Len(obs)])

\* drop_duplicates in the place of sum: the last row of a date replaces the group
KeepLastOfGroup(g, o) ==
    IF Len(g) > 0 /\ g[Len(g)].date = o.date
    THEN [g EXCEPT ![Len(g)].waste_tons = o.waste_tons]
    ELSE Append(g, o)

\* one more row of the sorted frame enters the groups g
AddToGroup(g, o) ==
    IF Len(g) > 0 /\ g[Len(g)].date = o.date
    THEN [g EXCEPT ![Len(g)].waste_tons = @ + o.waste_tons]
    ELSE Append(g, o)

\* df.groupby('date')['waste_tons'].sum().reset_index()
RECURSIVE GroupSum(_)
GroupSum(sorted) ==
    IF Len(sorted) = 0 THEN <<>>
    ELSE AddToGroup(GroupSum(SubSeq(sorted, 1, Len(sorted) - 1)), sorted[Len(sorted)])

\* pd.date_range(start, end, freq='D')
date_range(start, end) ==
    [k \in 1..((end - start) \div HOURS_PER_DAY + 1) |-> start + (k - 1) * HOURS_PER_DAY]

\* full_df.merge(daily_data, on='date', how='left'): NaN where no row matches
MergeLeft(dates, daily) ==
    [k \in 1..Len(dates) |->
        [date |-> dates[k],
         waste_tons |->
            IF \E j \in 1..Len(daily) : daily[j].date = dates[k]
            THEN daily[CHOOSE j \in 1..Len(daily) : daily[j].date = dates[k]].waste_tons
            ELSE NaN]]

\* daily_data['waste_tons'].fillna(0)
FillNa(rows) ==
    [k \in 1..Len(rows) |->
        [rows[k] EXCEPT !.waste_tons = IF @ = NaN THEN 0 ELSE @]]

\* the frame is returned with the days between its dates left out
NoFill(daily) == daily

\* if len(daily_data) > 1: fill the missing dates
FillMissingDates(daily) ==
    IF Len(daily) > 1
    THEN FillNa(MergeLeft(date_range(daily[1].date, daily[Len(daily)].date), daily))
    ELSE daily

\* days_since_start and cumulative_waste
AddFeatures(daily) ==
    [k \in 1..Len(daily) |->
        [date |-> daily[k].date,
         waste_tons |-> daily[k].waste_tons,
         days_since_start |-> (daily[k].date - daily[1].date) \div HOURS_PER_DAY,
         cumulative_waste |-> SumSeq([j \in 1..k |-> daily[j].waste_tons])]]

\* create_forecast_features(df_logs): what it raises and the table it returns
create_forecast_features(df_logs) ==
    IF Len(df_logs) = 0 THEN [exc |-> "none", rows |-> <<>>]
    ELSE [exc |-> "none",
          rows |-> AddFeatures(FillMissingDates(GroupSum(SortByDate(ConvertDates(df_logs)))))]

(***************************************************************************)
(* SpecFeatures: one call of create_forecast_features on the observations *)
(* drawn in the initial state.                                            *)
(***************************************************************************)
MaxObs == 3
MaxDay == 3
MaxTons == 2

Observations == [date : 0..MaxDay, waste_tons : 1..MaxTons]

InitFeatures ==
    /\ models = <<>>
    /\ selector = NewSelector
    /\ lib = [available |-> FALSE, fit_raises |-> {}]
    /\ ret \in {[op |-> "call", df_logs |-> o] : o \in SeqsUpTo(Observations, MaxObs)}
    /\ StoreIdle

\* create_forecast_features(df_logs) has returned r
FeaturesReturned(r) ==
    /\ ret' = [op |-> "create_forecast_features", df_logs |-> ret.df_logs,
               exc |-> r.exc, rows |-> r.rows]
    /\ UNCHANGED <<models, selector, lib>>
    /\ UNCHANGED storeVars

CreateForecastFeatures ==
    ret.op = "call" /\ FeaturesReturned(create_forecast_features(ret.df_logs))

NextFeatures == CreateForecastFeatures

SpecFeatures == InitFeatures /\ [][NextFeatures]_vars

(***************************************************************************)
(* FinanceCalculator (finance.py).  Money, tons and kWh are whole         *)
(* numbers, truncated toward 0 after each product; capacity_factor,       *)
(* discount_rate and growth_rate are fixed-point; a payback period is a   *)
(* fixed-point number of years.                                           *)
(***************************************************************************)
DAYS_PER_YEAR == 365

\* a / b truncated toward 0, b > 0
TruncDiv(a, b) == IF a >= 0 THEN a \div b ELSE 0 - ((0 - a) \div b)

\* x ** n for a fixed-point x and an int n >= 0
RECURSIVE PowF(_, _)
PowF(x, n) == IF n <= 0 THEN SCALE ELSE (PowF(x, n - 1) * x) \div SCALE

\* the parameters of FinanceCalculator.__init__
INIT_PARAMS ==
    {"yield_rate", "capacity_factor", "tariff", "opex_per_ton", "fixed_opex", "capex",
     "discount_rate"}

\* FinanceCalculator.__init__
FinanceCalculator(yield_rate, capacity_factor, tariff, opex_per_ton, fixed_opex, capex, discount_rate) ==
    [yield_rate |-> yield_rate, capacity_factor |-> capacity_factor, tariff |-> tariff,
     opex_per_ton |-> opex_per_ton, fixed_opex |-> fixed_opex, capex |-> capex,
     discount_rate |-> discount_rate]

\* FinanceCalculator(**kwargs): a keyword that is no parameter of __init__, or a
\* parameter left out, is a TypeError
Construct(kwargs) ==
    IF DOMAIN kwargs # INIT_PARAMS THEN [exc |-> "TypeError", calc |-> None]
    ELSE [exc |-> "none",
          calc |-> FinanceCalculator(kwargs.yield_rate, kwargs.capacity_factor, kwargs.tariff,
                                     kwargs.opex_per_ton, kwargs.fixed_opex, kwargs.capex,
                                     kwargs.discount_rate)]

\* annual_waste_tons = daily_waste_tons * 365 * ((1 + growth_rate) ** (year - 1))
AnnualWasteTons(daily_waste_tons, year, growth_rate) ==
    (daily_waste_tons * DAYS_PER_YEAR * PowF(SCALE + growth_rate, year - 1)) \div SCALE

\* the dict of one year with the net cashflow taken as cost less revenue
AnnualMetricsCostLessRevenue(calc, year, tons, kwh) ==
    [year |-> year,
     waste_tons |-> tons,
     electricity_kwh |-> kwh,
     revenue |-> kwh * calc.tariff,
     variable_opex |-> tons * calc.opex_per_ton,
     fixed_opex |-> calc.fixed_opex,
     total_opex |-> tons * calc.opex_per_ton + calc.fixed_opex,
     ncf |-> (tons * calc.opex_per_ton + calc.fixed_opex) - kwh * calc.tariff]

\* the dict of one year, from its tons and its kWh
AnnualMetrics(calc, year, tons, kwh) ==
    [year |-> year,
     waste_tons |-> tons,
     electricity_kwh |-> kwh,
     revenue |-> kwh * calc.tariff,
     variable_opex |-> tons * calc.opex_per_ton,
     fixed_opex |-> calc.fixed_opex,
     total_opex |-> tons * calc.opex_per_ton + calc.fixed_opex,
     ncf |-> kwh * calc.tariff - (tons * calc.opex_per_ton + calc.fixed_opex)]

\* annual_kwh = annual_waste_tons * self.yield_rate * self.capacity_factor
AnnualKwh(calc, tons) == (tons * calc.yield_rate * calc.capacity_factor) \div SCALE

\* FinanceCalculator.calculate_annual_metrics
calculate_annual_metrics(calc, daily_waste_tons, year, growth_rate) ==
    AnnualMetrics(calc, year, AnnualWasteTons(daily_waste_tons, year, growth_rate),
                  AnnualKwh(calc, AnnualWasteTons(daily_waste_tons, year, growth_rate)))

\* the cashflow_item built from annual_metrics
CashflowItem(am) ==
    [year |-> am.year, waste_tons |-> am.waste_tons, electricity_kwh |-> am.electricity_kwh,
     revenue |-> am.revenue, opex |-> am.total_opex, ncf |-> am.ncf]

\* FinanceCalculator.calculate_cashflows: for year in range(1, horizon_years + 1)
calculate_cashflows(calc, daily_waste_tons, horizon_years, growth_rate) ==
    [year \in 1..Max(horizon_years, 0) |->
        CashflowItem(calculate_annual_metrics(calc, daily_waste_tons, year, growth_rate))]

\* cf['ncf'] / ((1 + self.discount_rate) ** year)
DiscountedNcf(calc, cf) == TruncDiv(cf.ncf * SCALE, PowF(SCALE + calc.discount_rate, cf.year))

\* the investment discounted as a cashflow of year 1
DiscountedCapex(calc) == 0 - TruncDiv(calc.capex * SCALE, SCALE + calc.discount_rate)

\* npv = -self.capex
InitialNpv(calc) == 0 - calc.capex

\* for cf in cashflows: npv += discounted_ncf
RECURSIVE NpvLoop(_, _, _, _)
NpvLoop(calc, cashflows, i, npv) ==
    IF i > Len(cashflows) THEN npv
    ELSE NpvLoop(calc, cashflows, i + 1, npv + DiscountedNcf(calc, cashflows[i]))

\* FinanceCalculator.calculate_npv, with the cashflows it computed
NpvOf(calc, cashflows) ==
    [exc |-> "none", value |-> NpvLoop(calc, cashflows, 1, InitialNpv(calc)),
     cashflows |-> cashflows]

calculate_npv(calc, daily_waste_tons, horizon_years, growth_rate) ==
    NpvOf(calc, calculate_cashflows(calc, daily_waste_tons, horizon_years, growth_rate))

\* the year is taken as recovered only when the cumulative exceeds capex
CrossesStrictly(cumulative_ncf, capex) == cumulative_ncf > capex

\* if cumulative_ncf >= self.capex
Crosses(cumulative_ncf, capex) == cumulative_ncf >= capex

\* the cumulative of the crossing year taken for the one before it
PrevIsCumulative(cumulative_ncf, ncf) == cumulative_ncf

\* prev_cumulative = cumulative_ncf - cf['ncf']
PrevCumulative(cumulative_ncf, ncf) == cumulative_ncf - ncf

\* the year fraction taken as capex / cf['ncf'], whatever was recovered before
InterpolateWholeCapex(calc, cf, prev_cumulative) ==
    IF cf.ncf = 0 THEN [exc |-> "ZeroDivisionError", value |-> Inf]
    ELSE [exc |-> "none",
          value |-> (cf.year - 1) * SCALE + TruncDiv(calc.capex * SCALE, Abs(cf.ncf))]

\* the crossing branch: cf['year'] - 1 + remaining_recovery / cf['ncf']
Interpolate(calc, cf, prev_cumulative) ==
    IF cf.ncf = 0 THEN [exc |-> "ZeroDivisionError", value |-> Inf]
    ELSE IF cf.ncf > 0
    THEN [exc |-> "none",
          value |-> (cf.year - 1) * SCALE
                    + TruncDiv((calc.capex - prev_cumulative) * SCALE, cf.ncf)]
    ELSE [exc |-> "none",
          value |-> (cf.year - 1) * SCALE
                    - TruncDiv((calc.capex - prev_cumulative) * SCALE, 0 - cf.ncf)]

\* for cf in cashflows: cumulative_ncf += cf['ncf'], and the test of the year;
\* float('inf') when the loop ends
RECURSIVE PaybackLoop(_, _, _, _)
RECURSIVE PaybackYear(_, _, _, _)
PaybackYear(calc, cashflows, i, cumulative_ncf) ==
    IF Crosses(cumulative_ncf, calc.capex)
    THEN Interpolate(calc, cashflows[i], PrevCumulative(cumulative_ncf, cashflows[i].ncf))
    ELSE PaybackLoop(calc, cashflows, i + 1, cumulative_ncf)

PaybackLoop(calc, cashflows, i, cumulative_ncf) ==
    IF i > Len(cashflows) THEN [exc |-> "none", value |-> Inf]
    ELSE PaybackYear(calc, cashflows, i, cumulative_ncf + cashflows[i].ncf)

\* what a call returned, with the cashflows it computed
WithCashflows(r, cashflows) == [exc |-> r.exc, value |-> r.value, cashflows |-> cashflows]

\* FinanceCalculator.calculate_payback
PaybackOf(calc, cashflows) == WithCashflows(PaybackLoop(calc, cashflows, 1, 0), cashflows)

calculate_payback(calc, daily_waste_tons, horizon_years, growth_rate) ==
    PaybackOf(calc, calculate_cashflows(calc, daily_waste_tons, horizon_years, growth_rate))

\* growth_rate: float = 0.02
FINANCE_GROWTH_RATE == SCALE \div 50

\* FinanceCalculator._create_modified_calculator: a new calculator from the
\* parameters of calc, with param_name set to value if it is one of them
create_modified_calculator(calc, param_name, value) ==
    IF param_name \in INIT_PARAMS
    THEN Construct([calc EXCEPT ![param_name] = value]).calc
    ELSE Construct(calc).calc

\* the sweep sets the parameter on the calculator it was called on
ModifiedInPlace(calc, modified) == modified

\* the calculator sensitivity_analysis was called on, after one variant: the
\* variant is a new object and no attribute of self is assigned
SelfAfterVariant(calc, modified) == calc

\* the body of the inner loop of sensitivity_analysis, for the calculator built
AddVariant(acc, modified, daily_waste_tons, horizon_years) ==
    [calc |-> SelfAfterVariant(acc.calc, modified),
     npvs |-> Append(acc.npvs,
                     calculate_npv(modified, daily_waste_tons, horizon_years,
                                   FINANCE_GROWTH_RATE).value),
     variants |-> Append(acc.variants, modified)]

\* for variation in variations
RECURSIVE VariationLoop(_, _, _, _, _, _)
VariationLoop(acc, param_name, variations, j, daily_waste_tons, horizon_years) ==
    IF j > Len(variations) THEN acc
    ELSE VariationLoop(AddVariant(acc,
                                  create_modified_calculator(acc.calc, param_name,
                                                             variations[j]),
                                  daily_waste_tons, horizon_years),
                       param_name, variations, j + 1, daily_waste_tons, horizon_years)

\* results[param_name] = npv_variations
AddParam(st, param_name, acc) ==
    [calc |-> acc.calc,
     results |-> Append(st.results, [name |-> param_name, npvs |-> acc.npvs,
                                     variants |-> acc.variants])]

\* for param_name, variations in parameter_variations.items()
RECURSIVE ParamLoop(_, _, _, _, _)
ParamLoop(st, parameter_variations, i, daily_waste_tons, horizon_years) ==
    IF i > Len(parameter_variations) THEN st
    ELSE ParamLoop(AddParam(st, parameter_variations[i].name,
                            VariationLoop([calc |-> st.calc, npvs |-> <<>>,
                                           variants |-> <<>>],
                                          parameter_variations[i].name,
                                          parameter_variations[i].values, 1,
                                          daily_waste_tons, horizon_years)),
                   parameter_variations, i + 1, daily_waste_tons, horizon_years)

\* what sensitivity_analysis returns, with the calculator it leaves behind
SweepResult(base_npv, st) ==
    [exc |-> "none", calc |-> st.calc, base_npv |-> base_npv, results |-> st.results]

\* FinanceCalculator.sensitivity_analysis; parameter_variations is the dict in
\* its order, each item a name and the list of its values
sensitivity_analysis(calc, daily_waste_tons, horizon_years, parameter_variations) ==
    SweepResult(calculate_npv(calc, daily_waste_tons, horizon_years, FINANCE_GROWTH_RATE).value,
                ParamLoop([calc |-> calc, results |-> <<>>], parameter_variations, 1,
                          daily_waste_tons, horizon_years))

(***************************************************************************)
(* SpecFinance: one call of calculate_npv or calculate_payback on a       *)
(* calculator and a scenario drawn in the initial state.  capex is        *)
(* positive (schemas.py, and the sidebar of app.py).                      *)
(***************************************************************************)
MaxYears == 4
MaxDailyTons == 2

Calculators ==
    {FinanceCalculator(y, c, t, o, f, x, SCALE \div 10) :
        y \in {1, 2}, c \in {SCALE \div 2, SCALE}, t \in {1, 2, 20}, o \in {0, 1},
        f \in {0, 265, 400}, x \in {300, 1000}}

GrowthRates == {0, SCALE \div 50, SCALE \div 2}

FinanceCalls ==
    [op : {"call"}, calc : Calculators, daily_waste_tons : 0..MaxDailyTons,
     horizon_years : 1..MaxYears, growth_rate : GrowthRates]

\* base_value * 0.85 and base_value * 1.15, on whole and fixed-point numbers
Pct(base_value, pct) == (base_value * pct) \div 100

\* the two variations of each name: -15% and +15% of the value of calc (of 0 for
\* a name that is no parameter)
Variations(calc, names) ==
    [k \in 1..Len(names) |->
        [name |-> names[k],
         values |-> IF names[k] \in INIT_PARAMS
                    THEN <<Pct(calc[names[k]], 85), Pct(calc[names[k]], 115)>>
                    ELSE <<0, 0>>]]

\* the sweeps: one parameter, the five parameters of the sensitivity table, and
\* a name that is no parameter of the calculator
SweepNames ==
    {<<"tariff">>,
     <<"yield_rate", "tariff", "opex_per_ton", "capex", "discount_rate">>,
     <<"tariff", "growth_rate">>}

SweepCalls ==
    {[op |-> "sweep", calc |-> c, daily_waste_tons |-> d, horizon_years |-> h,
      parameter_variations |-> Variations(c, n)] :
        c \in Calculators, d \in 0..MaxDailyTons, h \in 1..MaxYears, n \in SweepNames}

\* yearly net cashflows of any sign, as calculate_cashflows could hand them to
\* the loop of calculate_payback
NcfValues == {0 - 200, 0, 100, 250}

CashflowsOf(ncfs) == [y \in 1..Len(ncfs) |-> [year |-> y, ncf |-> ncfs[y]]]

CashflowCalls ==
    {[op |-> "cashflows", calc |-> FinanceCalculator(1, SCALE, 1, 0, 0, x, SCALE \div 10),
      cashflows |-> CashflowsOf(n)] :
        x \in {300, 1000}, n \in SeqsUpTo(NcfValues, MaxYears)}

\* the keywords of _create_modified_calculator: the seven parameters
PlainKwargs(calc) == calc

\* the keywords of the tabs of app.py: the seven parameters and the three
\* optional-revenue settings of the sidebar
UIKwargs(calc, carbon_credit_price, byproduct) ==
    [yield_rate |-> calc.yield_rate, capacity_factor |-> calc.capacity_factor,
     tariff |-> calc.tariff, opex_per_ton |-> calc.opex_per_ton,
     fixed_opex |-> calc.fixed_opex, capex |-> calc.capex,
     discount_rate |-> calc.discount_rate,
     carbon_credit_price |-> carbon_credit_price,
     byproduct_price |-> byproduct.price, enable_byproduct |-> byproduct.enabled]

\* the constructor calls: op "new" with the keywords
ConstructorCalls ==
    {[op |-> "new", kwargs |-> PlainKwargs(c)] : c \in Calculators}
    \cup {[op |-> "new", kwargs |-> UIKwargs(c, p, b)] :
            c \in Calculators, p \in {0, 300},
            b \in {[price |-> 0, enabled |-> FALSE], [price |-> 50, enabled |-> TRUE]}}

InitFinance ==
    /\ models = <<>>
    /\ selector = NewSelector
    /\ lib = [available |-> FALSE, fit_raises |-> {}]
    /\ ret \in FinanceCalls \cup ConstructorCalls \cup SweepCalls \cup CashflowCalls
    /\ StoreIdle

\* the constructor has returned or raised
Constructed(r) ==
    /\ ret' = [op |-> "FinanceCalculator", kwargs |-> ret.kwargs, exc |-> r.exc,
               calc |-> r.calc]
    /\ UNCHANGED <<models, selector, lib>>
    /\ UNCHANGED storeVars

\* calc = FinanceCalculator(**kwargs)
ConstructCalculator == ret.op = "new" /\ Constructed(Construct(ret.kwargs))

\* the call has returned r
FinanceReturned(op, r) ==
    /\ ret' = [op |-> op, calc |-> ret.calc, daily_waste_tons |-> ret.daily_waste_tons,
               horizon_years |-> ret.horizon_years, growth_rate |-> ret.growth_rate,
               exc |-> r.exc, value |-> r.value, cashflows |-> r.cashflows]
    /\ UNCHANGED <<models, selector, lib>>
    /\ UNCHANGED storeVars

\* calc.calculate_npv(daily_waste_tons, horizon_years, growth_rate)
CalculateNpv ==
    /\ ret.op = "call"
    /\ FinanceReturned("calculate_npv",
                       calculate_npv(ret.calc, ret.daily_waste_tons, ret.horizon_years,
                                     ret.growth_rate))

\* calc.calculate_payback(daily_waste_tons, horizon_years, growth_rate)
CalculatePayback ==
    /\ ret.op = "call"
    /\ FinanceReturned("calculate_payback",
                       calculate_payback(ret.calc, ret.daily_waste_tons, ret.horizon_years,
                                         ret.growth_rate))

\* sensitivity_analysis has returned r; calc is the calculator after the call
Swept(r) ==
    /\ ret' = [op |-> "sensitivity_analysis", calc |-> r.calc,
               daily_waste_tons |-> ret.daily_waste_tons,
               horizon_years |-> ret.horizon_years,
               parameter_variations |-> ret.parameter_variations,
               exc |-> r.exc, base_npv |-> r.base_npv, results |-> r.results]
    /\ UNCHANGED <<models, selector, lib>>
    /\ UNCHANGED storeVars

\* calc.sensitivity_analysis(daily_waste_tons, horizon_years, parameter_variations)
SensitivityAnalysis ==
    /\ ret.op = "sweep"
    /\ Swept(sensitivity_analysis(ret.calc, ret.daily_waste_tons, ret.horizon_years,
                                  ret.parameter_variations))

\* the loop of calculate_payback has returned r on the cashflows of the call
PaybackReturned(r) ==
    /\ ret' = [op |-> "payback_loop", calc |-> ret.calc, exc |-> r.exc, value |-> r.value,
               cashflows |-> r.cashflows]
    /\ UNCHANGED <<models, selector, lib>>
    /\ UNCHANGED storeVars

\* calculate_payback from the point where cashflows is bound
PaybackOnCashflows == ret.op = "cashflows" /\ PaybackReturned(PaybackOf(ret.calc, ret.cashflows))

NextFinance ==
    \/ ConstructCalculator
    \/ CalculateNpv
    \/ CalculatePayback
    \/ SensitivityAnalysis
    \/ PaybackOnCashflows

SpecFinance == InitFinance /\ [][NextFinance]_vars

(***************************************************************************)
(* The waste logs of the two storage backends: the list of                *)
(* auth_inmemory.py and the waste_logs table of supabase_store.py.  A log *)
(* is a username, a calendar day and a quantity in whole tons.            *)
(***************************************************************************)
\* WasteLog(username, date, waste_tons)
WasteLog(username, date, waste_tons) ==
    [username |-> username, date |-> date, waste_tons |-> waste_tons]

\* AuthStore.add_waste_log: self.store['waste_logs'].append(waste_log)
MemAddWasteLog(st, waste_log) == [st EXCEPT !.waste_logs = Append(@, waste_log)]

\* AuthStore.get_user_logs: the logs of the user in the order of the list
MemGetUserLogs(st, username) ==
    SelectSeq(st.waste_logs, LAMBDA log : log.username = username)

\* log_id = f"{username}_{log_date.isoformat()}"
LogId(username, log_date) == <<username, log_date>>

\* the rows of the table for this user and this date
ExistingLogs(d, username, log_date) ==
    {row \in d.waste_logs : row.username = username /\ row.date = log_date}

\* supabase_store.add_waste_log: update the row of (username, date) if there is
\* one, else insert a row
DbAddWasteLog(d, username, log_date, waste_tons) ==
    IF ExistingLogs(d, username, log_date) # {}
    THEN [d EXCEPT !.waste_logs =
             {IF row \in ExistingLogs(d, username, log_date)
              THEN [row EXCEPT !.waste_tons = waste_tons] ELSE row : row \in @}]
    ELSE [d EXCEPT !.waste_logs =
             @ \cup {[id |-> LogId(username, log_date), username |-> username,
                      date |-> log_date, waste_tons |-> waste_tons]}]

\* .order_by(WasteLogEntry.date.desc()).all(), as WasteLog objects
RECURSIVE OrderByDateDesc(_)
OrderByDateDesc(rows) ==
    IF rows = {} THEN <<>>
    ELSE <<WasteLog((CHOOSE r \in rows : \A q \in rows : q.date <= r.date).username,
                    (CHOOSE r \in rows : \A q \in rows : q.date <= r.date).date,
                    (CHOOSE r \in rows : \A q \in rows : q.date <= r.date).waste_tons)>>
         \o OrderByDateDesc(rows \ {CHOOSE r \in rows : \A q \in rows : q.date <= r.date})

\* supabase_store.get_user_logs
DbGetUserLogs(d, username) ==
    OrderByDateDesc({row \in d.waste_logs : row.username = username})

(***************************************************************************)
(* SpecStore: one session adds logs and reads them back, each operation   *)
(* applied to both backends.                                              *)
(***************************************************************************)
MaxLogs == 3

LogUsers == {"demo", "alice"}
LogDates == {0, 1}
LogTons == {1, 2}

InitStore ==
    /\ models = <<>>
    /\ selector = NewSelector
    /\ lib = [available |-> FALSE, fit_raises |-> {}]
    /\ ret = [op |-> "none"]
    /\ StoreIdle

\* add-log on both backends
AddWasteLog(username, log_date, waste_tons) ==
    /\ Len(store.waste_logs) < MaxLogs
    /\ store' = MemAddWasteLog(store, WasteLog(username, log_date, waste_tons))
    /\ db' = DbAddWasteLog(db, username, log_date, waste_tons)
    /\ ret' = [op |-> "add_waste_log", username |-> username, date |-> log_date,
               waste_tons |-> waste_tons]
    /\ UNCHANGED <<models, selector, lib, sessions>>

\* get-logs on both backends
GetUserLogs(username) ==
    /\ ret' = [op |-> "get_user_logs", username |-> username,
               memory |-> MemGetUserLogs(store, username),
               relational |-> DbGetUserLogs(db, username)]
    /\ UNCHANGED <<models, selector, lib, store, db, sessions>>

NextStore ==
    \/ \E u \in LogUsers, d \in LogDates, q \in LogTons : AddWasteLog(u, d, q)
    \/ \E u \in LogUsers : GetUserLogs(u)

SpecStore == InitStore /\ [][NextStore]_vars

(***************************************************************************)
(* SpecAuth: the sessions of the app call AuthStore.add_user on the one   *)
(* cached dict, each in its own thread.  The membership test (line 46)    *)
(* and the assignment (line 60) are separate steps of a thread: the       *)
(* password hash is computed between them, and nothing is locked.         *)
(***************************************************************************)
MaxSessions == 2

Sessions == 1..MaxSessions
NewUsernames == {"demo", "alice", "bob"}

\* a session outside add_user, with what its last call returned
IdleSession == [pc |-> "idle", username |-> "", returned |-> "none"]

InitAuth ==
    /\ models = <<>>
    /\ selector = NewSelector
    /\ lib = [available |-> FALSE, fit_raises |-> {}]
    /\ ret = [op |-> "none"]
    /\ store = NewAuthStore
    /\ db = NewDatabase
    /\ sessions = [s \in Sessions |-> IdleSession]

\* the form of session s is submitted: add_user(username, ...) is entered
CallAddUser(s, username) ==
    /\ sessions[s].pc = "idle"
    /\ sessions' = [sessions EXCEPT ![s] = [pc |-> "check", username |-> username,
                                            returned |-> "none"]]
    /\ UNCHANGED <<models, selector, lib, ret, store, db>>

\* if username in self.store['users']: return False
AddUserCheck(s) ==
    /\ sessions[s].pc = "check"
    /\ sessions' = [sessions EXCEPT ![s] =
                       IF sessions[s].username \in DOMAIN store.users
                       THEN [@ EXCEPT !.pc = "idle", !.returned = "False"]
                       ELSE [@ EXCEPT !.pc = "store"]]
    /\ UNCHANGED <<models, selector, lib, ret, store, db>>

\* the profile session s builds: its own password and entity name
ProfileOf(s, username) == UserProfile(username, HashPw(<<"password", s>>), <<"entity", s>>)

\* self.store['users'][username] = user_profile; return True
AddUserStore(s) ==
    /\ sessions[s].pc = "store"
    /\ store' = [store EXCEPT !.users =
                    [u \in DOMAIN @ \cup {sessions[s].username} |->
                        IF u = sessions[s].username THEN ProfileOf(s, u) ELSE @[u]]]
    /\ sessions' = [sessions EXCEPT ![s] = [@ EXCEPT !.pc = "idle", !.returned = "True"]]
    /\ UNCHANGED <<models, selector, lib, ret, db>>

NextAuth ==
    \/ \E s \in Sessions, u \in NewUsernames : CallAddUser(s, u)
    \/ \E s \in Sessions : AddUserCheck(s)
    \/ \E s \in Sessions : AddUserStore(s)

SpecAuth == InitAuth /\ [][NextAuth]_vars

(***************************************************************************)
(* Properties                                                              *)
(***************************************************************************)
\* the instance the last fit, predict or backtest call was made on
Target == models[ret.model]

\* C1: on a fitted SARIMAModel, predict(n) takes the fallback branch exactly when
\* the most recent fit fell back, and returns the forecast of the fitted seasonal
\* process when the most recent fit fitted it (also after an earlier fallback).
C1_PredictFollowsLatestFit ==
    (ret.op = "predict" /\ Target.kind = "SARIMAModel" /\ Target.is_fitted)
        => /\ (ret.path = "fallback") <=> Target.fell_back
           /\ ~Target.fell_back => ret.values = SeasonalValues(Target.fitted_model, ret.n)

\* C2: every value predict(n) returns, n >= 1, on a DeterministicModel or
\* SARIMAModel that has been fitted is >= 0 (also the predictions a backtest pools).
C2_PredictNonNegative ==
    /\ (ret.op = "predict" /\ Target.is_fitted /\ ret.n >= 1)
          => /\ Len(ret.values) = ret.n
             /\ \A k \in 1..Len(ret.values) : ret.values[k] >= 0
    /\ ret.op = "backtest"
          => \A k \in 1..Len(ret.all_predictions) : ret.all_predictions[k] >= 0

\* C2 witness: a fitted seasonal process whose forecast is below 0 was asked to
\* predict and the value returned is 0.
C2_Witness ==
    /\ ret.op = "predict" /\ ret.path = "seasonal" /\ ret.n >= 1
    /\ SarimaxForecast(Target.fitted_model, 1) < 0
    /\ ret.values[1] = 0

\* C3: after fit returns, the growth_rate of every DeterministicModel lies in
\* [-0.01, 0.01].
C3_GrowthRateClamped ==
    \A i \in 1..Len(models) :
        (models[i].kind = "DeterministicModel" /\ models[i].is_fitted)
            => /\ models[i].growth_rate >= 0 - GROWTH_CAP
               /\ models[i].growth_rate <= GROWTH_CAP

\* the last call was select_best_model on a table long enough to be evaluated
Evaluated == ret.op = "select" /\ Len(models) > 0 /\ Len(ret.table) >= SELECT_MIN_ROWS

\* the score the loop of the last select_best_model call computed for candidate i
ScoreOf(i) == ret.log[i].score

\* candidate i scored lowest, and strictly lower than every candidate listed before it
FirstLowest(i) ==
    /\ ScoreOf(i) # Inf
    /\ \A k \in 1..Len(ret.log) : ~ScoreLess(ScoreOf(k), ScoreOf(i))
    /\ \A k \in 1..(i - 1) : ScoreLess(ScoreOf(i), ScoreOf(k))

\* C4: with at least 10 rows, select_best_model returns the candidate with the
\* lowest backtest score, the first listed among those that share it, and the
\* first candidate when no candidate has a finite score.
C4_SelectsFirstLowest ==
    Evaluated =>
        /\ Len(ret.log) = Len(models)
        /\ ret.chosen \in 1..Len(models)
        /\ IF \E i \in 1..Len(ret.log) : ScoreOf(i) # Inf
           THEN FirstLowest(ret.chosen)
           ELSE ret.chosen = 1

\* C4 witness: the second candidate scored strictly below the first and was returned.
C4_Witness ==
    /\ Evaluated /\ Len(ret.log) = 2
    /\ ScoreLess(ScoreOf(2), ScoreOf(1)) /\ ScoreOf(1) # Inf
    /\ ret.chosen = 2

\* the candidate list as it was constructed
Fresh(ms) == [i \in 1..Len(ms) |-> NewModel(ms[i].kind, ms[i].default_growth_rate)]

\* C5: what select_best_model returns depends on the table and the candidate list
\* only: a call on instances that earlier calls fitted and backtested returns the
\* candidate that a call on a new selector over new instances returns.
C5_SelectDeterministic ==
    ret.op = "select" =>
        ret.chosen = select_best_model(NewSelector, Fresh(models), ret.table, lib).chosen

\* C5 witness: an evaluation on instances that earlier calls had fitted: the
\* SARIMAModel fitted the seasonal process on the whole table in this call and
\* still carries the fallback model of an earlier fit.
C5_Witness ==
    /\ Evaluated /\ lib.available /\ selector.best_model = ret.chosen
    /\ \E i \in 1..Len(models) :
          /\ models[i].kind = "SARIMAModel"
          /\ models[i].fitted_model # None
          /\ models[i].fitted_model.endog = ret.table
          /\ models[i].base_forecast # None

\* C6: when the fit of a candidate raises during select_best_model, its score is
\* recorded as +infinity, the call returns normally, and every later candidate is
\* fitted and scored.
C6_RaisingCandidateScoredInf ==
    (Evaluated /\ \E i \in 1..Len(models) : models[i].kind = "BaseModel")
        => /\ ret.exc = "none"
           /\ Len(ret.log) = Len(models)
           /\ \A i \in 1..Len(ret.log) :
                 /\ ret.log[i].candidate = i
                 /\ TypeName(models[i]) \in DOMAIN get_performance_summary(selector)
                 /\ models[i].kind = "BaseModel"
                       => /\ ret.log[i].exc = "caught"
                          /\ get_performance_summary(selector)[TypeName(models[i])] = Inf
                 /\ models[i].kind # "BaseModel"
                       => ret.log[i].exc = "none" /\ models[i].is_fitted

\* C6 witness: the first candidate raised, the second was scored and returned.
C6_Witness ==
    /\ Evaluated /\ Len(ret.log) = 2
    /\ ret.log[1].exc = "caught" /\ ret.log[2].exc = "none"
    /\ ScoreOf(2) # Inf /\ ret.chosen = 2

\* C7: with fewer than 10 rows and a non-empty candidate list, select_best_model
\* returns the first candidate, makes no fit or predict call, and leaves the
\* candidates and the score map as they were.
C7_ShortTableSkipsEvaluation ==
    [][(ret'.op = "select" /\ Len(ret'.table) < SELECT_MIN_ROWS /\ Len(models) > 0)
          => /\ ret'.chosen = 1
             /\ ret'.fit_calls = 0
             /\ models' = models
             /\ selector'.performance_scores = selector.performance_scores]_vars

\* C7 witness: a short table was given to a selector whose candidates are fitted
\* and whose score map is not empty, and the first candidate came back.
C7_Witness ==
    /\ ret.op = "select" /\ Len(ret.table) < SELECT_MIN_ROWS /\ Len(ret.table) > 0
    /\ ret.chosen = 1 /\ ret.fit_calls = 0
    /\ Len(models) > 0 /\ models[1].is_fitted
    /\ DOMAIN selector.performance_scores # {}

\* C8: after select_best_model has evaluated its candidates, the map
\* get_performance_summary returns holds one score for each candidate of the list.
C8_OneScorePerCandidate ==
    Evaluated => Cardinality(DOMAIN get_performance_summary(selector)) = Len(models)

\* the number of windows: the k >= 0 with min_train_size + (k + 1) * test_size <= len
WindowCount(len, test_size, min_train_size) == (len - min_train_size) \div test_size

\* the day numbers lo, ..., hi - 1
Days(lo, hi) == [i \in 1..(hi - lo) |-> lo + i - 1]

\* C9: with len >= min_train_size + test_size, the k-th window of backtest_model
\* trains on rows [0, min_train_size + k * test_size) and tests on the next
\* test_size rows, for exactly the k with min_train_size + (k + 1) * test_size <= len;
\* the actuals pooled are the rows of the test windows in order.
C9_WalkForwardWindows ==
    (ret.op = "backtest" /\ Len(ret.table) >= ret.min_train_size + ret.test_size)
        => LET K == WindowCount(Len(ret.table), ret.test_size, ret.min_train_size)
               b(k) == ret.min_train_size + k * ret.test_size
           IN /\ Len(ret.windows) = K
              /\ \A j \in 1..Len(ret.windows) :
                    /\ ret.windows[j].train_dates = Days(0, b(j - 1))
                    /\ ret.windows[j].test_dates = Days(b(j - 1), b(j))
                    /\ ret.windows[j].compared <=> Target.kind # "BaseModel"
              /\ Target.kind # "BaseModel"
                    => ret.all_actuals = ILocSlice(ret.table, b(0), b(K))

\* C9 witness: a backtest took three windows and compared each.
C9_Witness ==
    /\ ret.op = "backtest" /\ Len(ret.windows) = 3
    /\ \A j \in 1..3 : ret.windows[j].compared
    /\ Len(ret.table) > ret.min_train_size + 3 * ret.test_size

\* C10: backtest_model returns +infinity whenever the table has fewer than
\* min_train_size + test_size rows.
C10_InsufficientHistoryInf ==
    (ret.op = "backtest" /\ Len(ret.table) < ret.min_train_size + ret.test_size)
        => ret.score = Inf

\* C10 witness: a model that can be fitted was backtested on a table with enough
\* rows to train on and too few to test on.
C10_Witness ==
    /\ ret.op = "backtest" /\ Target.kind # "BaseModel"
    /\ Len(ret.table) >= ret.min_train_size
    /\ Len(ret.table) < ret.min_train_size + ret.test_size
    /\ ret.score = Inf /\ ret.windows = <<>>

\* the sum of the truncated percentage errors over the index set S
RECURSIVE SumPctOver(_, _, _)
SumPctOver(S, actual, predicted) ==
    IF S = {} THEN 0
    ELSE LET i == CHOOSE j \in S : TRUE
         IN (Abs(actual[i] * SCALE - predicted[i]) * 100) \div actual[i]
            + SumPctOver(S \ {i}, actual, predicted)

\* the sum of the absolute errors over the index set S
RECURSIVE SumAbsOver(_, _, _)
SumAbsOver(S, actual, predicted) ==
    IF S = {} THEN 0
    ELSE LET i == CHOOSE j \in S : TRUE
         IN Abs(actual[i] * SCALE - predicted[i]) + SumAbsOver(S \ {i}, actual, predicted)

\* the indices of the non-zero actuals
NonZero(actual) == {i \in 1..Len(actual) : actual[i] # 0}

\* C11: calculate_mape on two non-empty lists of one length returns 100 times the
\* mean of |actual_i - predicted_i| / |actual_i| over the indices with
\* actual_i # 0 only (13.333 for the worked example), and the mean absolute error
\* over all indices when every actual is 0.
C11_MapeOverNonZero ==
    (ret.op = "calculate_mape" /\ Len(ret.actual) = Len(ret.predicted) /\ Len(ret.actual) > 0)
        => /\ ret.exc = "none"
           /\ NonZero(ret.actual) # {}
                 => ret.value = SumPctOver(NonZero(ret.actual), ret.actual, ret.predicted)
                                    \div Cardinality(NonZero(ret.actual))
           /\ NonZero(ret.actual) = {}
                 => ret.value = SumAbsOver(1..Len(ret.actual), ret.actual, ret.predicted)
                                    \div Len(ret.actual)
           /\ (ret.actual = ExampleActual /\ ret.predicted = ExamplePredicted)
                 => ret.value = 13 * SCALE + SCALE \div 3

\* C11 witness: calculate_mape returned the value of the worked example, whose
\* third actual is 0.
C11_Witness ==
    /\ ret.op = "calculate_mape" /\ ret.actual = ExampleActual
    /\ ret.predicted = ExamplePredicted /\ ret.value = 13 * SCALE + SCALE \div 3

\* the table has fewer than 10 rows, its series has zero variance, statsmodels
\* is unavailable, or the seasonal fit of it raises
MustFallBack(t) ==
    \/ Len(t) < 10
    \/ Cardinality({t[i] : i \in 1..Len(t)}) <= 1
    \/ ~lib.available
    \/ Len(t) \in lib.fit_raises

\* C12: SARIMAModel.fit never raises and ends with is_fitted true; when the table
\* has fewer than 10 rows, the series has zero variance, statsmodels is
\* unavailable or the seasonal fit raises, the wrapped DeterministicModel after
\* the call is a new one fitted on the table of this call.
C12_SarimaFitFallsBack ==
    [][/\ (ret'.op = "fit" /\ models[1].kind = "SARIMAModel")
            => (ret'.exc = "none" /\ models'[1].is_fitted)
       /\ \A t \in Tables :
            (models[1].kind = "SARIMAModel" /\ FitModel(1, t) /\ MustFallBack(t))
                => models'[1].base_forecast
                       = DetFit(NewDeterministic(DEFAULT_GROWTH_RATE), t)]_vars

\* C12 witness: with statsmodels installed, a SARIMAModel that had fitted the
\* seasonal process was fitted on the 14-row constant table and wraps the
\* DeterministicModel of that table.
C12_Witness ==
    /\ ret.op = "fit" /\ Target.kind = "SARIMAModel" /\ lib.available
    /\ Target.is_fitted /\ Target.fell_back /\ Target.fitted_model # None
    /\ Target.base_forecast = DetFit(NewDeterministic(DEFAULT_GROWTH_RATE), Flat14)

\* C13: predict(n) leaves the model as it was (base_value, growth_rate, fitted
\* seasonal model, fallback model, is_fitted, model_params), and a predict(n)
\* that follows a predict(n) on the same DeterministicModel, with no fit in
\* between, returns the same list.
C13_PredictReadOnly ==
    [][ret'.op = "predict"
          => /\ models' = models
             /\ (ret.op = "predict" /\ ret'.n = ret.n
                    /\ models[1].kind = "DeterministicModel")
                   => ret'.values = ret.values]_vars

\* C13 witness: a fitted DeterministicModel with a growing forecast, and a
\* SARIMAModel holding both a seasonal fit and a fallback model, returned a
\* forecast of two days.
C13_Witness ==
    /\ ret.op = "predict" /\ ret.n = 2 /\ Target.is_fitted
    /\ \/ Target.kind = "DeterministicModel" /\ ret.values[1] < ret.values[2]
       \/ /\ Target.kind = "SARIMAModel" /\ Target.fitted_model # None
          /\ Target.base_forecast # None

\* the calendar days of the observations
ObservedDays(obs) == {obs[k].date : k \in 1..Len(obs)}
FirstDay(obs) == CHOOSE d \in ObservedDays(obs) : \A e \in ObservedDays(obs) : d <= e
LastDay(obs) == CHOOSE d \in ObservedDays(obs) : \A e \in ObservedDays(obs) : d >= e

\* the sum of the quantities of the observations with indices in S
RECURSIVE SumTons(_, _)
SumTons(S, obs) ==
    IF S = {} THEN 0
    ELSE LET k == CHOOSE j \in S : TRUE
         IN obs[k].waste_tons + SumTons(S \ {k}, obs)

\* C14: for observations on days D1..D2, in any order, with gaps and duplicates,
\* create_forecast_features returns D2 - D1 + 1 rows, the k-th on day D1 + k - 1
\* (one row per calendar day, strictly increasing, no date twice), with
\* quantity 0 on every day that has no observation.
C14_OneRowPerDay ==
    (ret.op = "create_forecast_features" /\ Len(ret.df_logs) > 0)
        => /\ Len(ret.rows) = LastDay(ret.df_logs) - FirstDay(ret.df_logs) + 1
           /\ \A k \in 1..Len(ret.rows) :
                 /\ ret.rows[k].date = to_datetime(FirstDay(ret.df_logs) + k - 1)
                 /\ FirstDay(ret.df_logs) + k - 1 \notin ObservedDays(ret.df_logs)
                       => ret.rows[k].waste_tons = 0
           /\ \A j, k \in 1..Len(ret.rows) : j < k => ret.rows[j].date < ret.rows[k].date

\* C14 witness: three observations given latest first, two of them on one day
\* and with an empty day in between, came back as a table of three days.
C14_Witness ==
    /\ ret.op = "create_forecast_features" /\ Len(ret.df_logs) = 3
    /\ ret.df_logs[1].date = 2 /\ ret.df_logs[2].date = 0 /\ ret.df_logs[3].date = 2
    /\ Len(ret.rows) = 3 /\ ret.rows[2].waste_tons = 0

\* C15: in the table create_forecast_features returns, the quantity of each day
\* is the sum of the quantities of all observations of that day, whatever the
\* order of the observations.
C15_QuantitiesSummed ==
    (ret.op = "create_forecast_features" /\ Len(ret.df_logs) > 0)
        => \A k \in 1..Len(ret.rows) :
              ret.rows[k].waste_tons
                  = SumTons({j \in 1..Len(ret.df_logs) :
                                to_datetime(ret.df_logs[j].date) = ret.rows[k].date},
                            ret.df_logs)

\* C15 witness: two observations of one day, with an observation of an earlier
\* day given between them, were summed into one row.
C15_Witness ==
    /\ ret.op = "create_forecast_features" /\ Len(ret.df_logs) = 3
    /\ ret.df_logs[1].date = 1 /\ ret.df_logs[2].date = 0 /\ ret.df_logs[3].date = 1
    /\ ret.df_logs[1].waste_tons # ret.df_logs[3].waste_tons
    /\ Len(ret.rows) = 2
    /\ ret.rows[2].waste_tons = ret.df_logs[1].waste_tons + ret.df_logs[3].waste_tons

\* C16: create_forecast_features called with zero observations fails with an
\* EmptyInputError and returns no table.
C16_EmptyInputFails ==
    (ret.op = "create_forecast_features" /\ Len(ret.df_logs) = 0)
        => ret.exc = "EmptyInputError"

\* C17: predict of a DeterministicModel or a SARIMAModel with a negative horizon
\* is rejected with an error and returns no forecast.
C17_NegativeHorizonRejected ==
    (ret.op = "predict" /\ ret.n < 0
        /\ Target.kind \in {"DeterministicModel", "SARIMAModel"})
        => ret.exc # "none"

\* the years of the cashflows the last call computed
Years == 1..Len(ret.cashflows)

\* the sum over the years in S of net_cashflow_year / (1 + discount_rate)^year
RECURSIVE SumDiscounted(_)
SumDiscounted(S) ==
    IF S = {} THEN 0
    ELSE LET y == CHOOSE z \in S : TRUE
         IN TruncDiv(ret.cashflows[y].ncf * SCALE, PowF(SCALE + ret.calc.discount_rate, y))
            + SumDiscounted(S \ {y})

\* the cumulative net cashflow at the end of year y
RECURSIVE Cumulative(_)
Cumulative(y) == IF y = 0 THEN 0 ELSE Cumulative(y - 1) + ret.cashflows[y].ncf

\* the cumulative net cashflow first reaches capex in year y
FirstReached(y) ==
    /\ Cumulative(y) >= ret.calc.capex
    /\ \A z \in 1..(y - 1) : Cumulative(z) < ret.calc.capex

\* C18: calculate_npv returns -capex plus the sum over the years 1..horizon of
\* net_cashflow_year / (1 + discount_rate)^year, capex not discounted; with a
\* net cashflow of 0 in every year it returns -capex exactly.
C18_NpvDiscountedSum ==
    ret.op = "calculate_npv"
        => /\ ret.exc = "none"
           /\ Len(ret.cashflows) = ret.horizon_years
           /\ ret.value = SumDiscounted(Years) - ret.calc.capex
           /\ (\A y \in Years : ret.cashflows[y].ncf = 0) => ret.value = 0 - ret.calc.capex

\* C18 witness: calculate_npv returned -capex for a plant that takes in waste
\* every day and whose revenue equals its costs in each of four years.
C18_Witness ==
    /\ ret.op = "calculate_npv" /\ ret.horizon_years = 4 /\ ret.daily_waste_tons > 0
    /\ \A y \in Years : ret.cashflows[y].ncf = 0 /\ ret.cashflows[y].revenue > 0
    /\ ret.value = 0 - ret.calc.capex

\* C19: when the cumulative net cashflow first reaches capex in year y,
\* calculate_payback returns (y - 1) + (capex - cumulative through year y - 1)
\* / net_cashflow_y, and exactly y when the cumulative equals capex at the end
\* of year y.
C19_PaybackInterpolated ==
    ret.op = "calculate_payback"
        => \A y \in Years :
              FirstReached(y)
                  => /\ ret.exc = "none"
                     /\ ret.value = (y - 1) * SCALE
                            + TruncDiv((ret.calc.capex - Cumulative(y - 1)) * SCALE,
                                       ret.cashflows[y].ncf)
                     /\ Cumulative(y) = ret.calc.capex => ret.value = y * SCALE

\* C19 witness: with capex 300 and a net cashflow of 100 in each of four years
\* calculate_payback returned 3.0.
C19_Witness ==
    /\ ret.op = "calculate_payback" /\ ret.calc.capex = 300 /\ ret.horizon_years = 4
    /\ \A y \in Years : ret.cashflows[y].ncf = 100
    /\ ret.value = 3 * SCALE

\* C20: calculate_payback returns +infinity exactly when the cumulative net
\* cashflow is below capex at the end of every year 1..horizon; otherwise it
\* returns a finite value not greater than horizon.
C20_PaybackInfiniteIffNeverReached ==
    ret.op = "calculate_payback"
        => /\ ret.exc = "none"
           /\ ret.value = Inf <=> \A y \in Years : Cumulative(y) < ret.calc.capex
           /\ ret.value # Inf => (ret.value >= 0 /\ ret.value <= ret.horizon_years * SCALE)

\* C20 witness: the cumulative net cashflow reached capex exactly at the end of
\* the last year of the horizon, and the payback returned is that year.
C20_Witness ==
    /\ ret.op = "calculate_payback"
    /\ Cumulative(ret.horizon_years) = ret.calc.capex
    /\ \A y \in 1..(ret.horizon_years - 1) : Cumulative(y) < ret.calc.capex
    /\ ret.value = ret.horizon_years * SCALE

\* C21: the net cashflow of each projected year is revenue_total - opex_total,
\* revenue_total the sum of the electricity revenue (energy_kwh x tariff), the
\* carbon revenue (0 if unset) and the byproduct revenue (0 unless enabled),
\* opex_total = annual tons x opex_per_ton + fixed_opex; and FinanceCalculator
\* accepts carbon_credit_price, byproduct_price and enable_byproduct as the
\* tabs of the UI pass them.
C21_RevenueStreamsAccepted ==
    /\ (ret.op = "FinanceCalculator" /\ "carbon_credit_price" \in DOMAIN ret.kwargs)
          => ret.exc = "none"
    /\ ret.op \in {"calculate_npv", "calculate_payback"}
          => \A y \in 1..Len(ret.cashflows) :
                ret.cashflows[y].ncf
                    = ret.cashflows[y].electricity_kwh * ret.calc.tariff
                      - (ret.cashflows[y].waste_tons * ret.calc.opex_per_ton
                         + ret.calc.fixed_opex)

\* C22: with a daily quantity > 0 and yield_rate, capacity_factor, tariff and
\* discount_rate all > 0, the NPV computed with tariff x 1.15 is not below the
\* NPV computed with tariff x 0.85, all other parameters equal.
C22_TariffImpactNonNegative ==
    (ret.op = "sensitivity_analysis" /\ ret.daily_waste_tons > 0
        /\ ret.calc.yield_rate > 0 /\ ret.calc.capacity_factor > 0
        /\ ret.calc.tariff > 0 /\ ret.calc.discount_rate > 0)
        => \A k \in 1..Len(ret.results) :
              ret.results[k].name = "tariff"
                  => ret.results[k].npvs[2] >= ret.results[k].npvs[1]

\* C22 witness: a sweep of the tariff of a plant that produces energy returned
\* a higher NPV for +15% than for -15%.
C22_Witness ==
    /\ ret.op = "sensitivity_analysis" /\ ret.daily_waste_tons > 0
    /\ ret.results[1].name = "tariff"
    /\ ret.results[1].npvs[2] > ret.results[1].npvs[1]

\* C23: each variant of a sweep is computed on a new calculator that differs
\* from the base calculator in the named parameter only; sensitivity_analysis
\* leaves every parameter of the base calculator as it was, so the base NPV is
\* the same after the sweep.
C23_SweepLeavesBaseUnchanged ==
    [][ret'.op = "sensitivity_analysis"
          => /\ ret'.calc = ret.calc
             /\ ret'.base_npv = calculate_npv(ret'.calc, ret.daily_waste_tons,
                                              ret.horizon_years, FINANCE_GROWTH_RATE).value
             /\ \A k \in 1..Len(ret'.results) :
                   \A j \in 1..Len(ret'.results[k].variants) :
                      /\ \A p \in INIT_PARAMS \ {ret'.results[k].name} :
                            ret'.results[k].variants[j][p] = ret.calc[p]
                      /\ ret'.results[k].name \in INIT_PARAMS
                            => ret'.results[k].variants[j][ret'.results[k].name]
                                  = ret.parameter_variations[k].values[j]]_vars

\* C23 witness: a sweep of five parameters, two values each, has returned, and
\* its last variant has another discount rate than the base calculator.
C23_Witness ==
    /\ ret.op = "sensitivity_analysis" /\ Len(ret.results) = 5
    /\ Len(ret.results[5].variants) = 2
    /\ ret.results[5].variants[2].discount_rate # ret.calc.discount_rate

\* C28: in calculate_payback with capex > 0, for every sequence of yearly net
\* cashflows, the division is never by zero; when the crossing branch is taken
\* in year y the net cashflow of year y is strictly positive and the payback
\* returned lies in (y - 1, y].
C28_CrossingYearPositive ==
    (ret.op \in {"payback_loop", "calculate_payback"} /\ ret.calc.capex > 0)
        => /\ ret.exc = "none"
           /\ \A y \in Years :
                 FirstReached(y)
                     => /\ ret.cashflows[y].ncf > 0
                        /\ ret.value > (y - 1) * SCALE
                        /\ ret.value <= y * SCALE

\* C28 witness: the cumulative fell to -200 after the first year and the
\* payback was returned for a later year.
C28_Witness ==
    /\ ret.op = "payback_loop" /\ Len(ret.cashflows) >= 3
    /\ ret.cashflows[1].ncf < 0
    /\ ret.value # Inf /\ ret.value > 2 * SCALE

\* how often the log (date, waste_tons) occurs in the list logs
Occurrences(logs, date, waste_tons) ==
    Cardinality({k \in 1..Len(logs) :
                    logs[k].date = date /\ logs[k].waste_tons = waste_tons})

\* C24: after the same add-log operations, get-logs of the in-memory backend and
\* of the relational backend return the same collection of (date, quantity)
\* logs for a user, also when two logs were added for one user and one date.
C24_BackendsAgree ==
    ret.op = "get_user_logs"
        => \A d \in LogDates, q \in LogTons :
              Occurrences(ret.memory, d, q) = Occurrences(ret.relational, d, q)

\* C25: of the add_user calls made by two sessions with one new username at
\* most one returns True, the profile stored under the username is the one of
\* the call that returned True, and the profile of an existing user (the demo
\* user included) is never overwritten.
C25_AddUserThreadSafe ==
    [][/\ \A u \in DOMAIN store.users :
            u \in DOMAIN store'.users /\ store'.users[u] = store.users[u]
       /\ \A s \in Sessions :
            (sessions[s].pc = "store" /\ sessions'[s].returned = "True")
                => /\ store'.users[sessions[s].username] = ProfileOf(s, sessions[s].username)
                   /\ \A t \in Sessions \ {s} :
                         ~(sessions'[t].returned = "True"
                             /\ sessions'[t].username = sessions[s].username)]_vars

\* the number of windows of a backtest that added a pair to the pooled lists
ComparedCount(windows) == Cardinality({j \in 1..Len(windows) : windows[j].compared})

\* C26: after backtest_model, the pooled actuals and the pooled predictions have
\* the same length, test_size for each window that was compared; a window whose
\* fit or predict raised added nothing to either list and the windows after it
\* were still taken; the score is +infinity when no window added a pair.
C26_PooledListsAligned ==
    (ret.op = "backtest" /\ Len(ret.table) >= ret.min_train_size + ret.test_size)
        => /\ Len(ret.all_actuals) = Len(ret.all_predictions)
           /\ Len(ret.all_actuals) = ComparedCount(ret.windows) * ret.test_size
           /\ Len(ret.windows) =
                  WindowCount(Len(ret.table), ret.test_size, ret.min_train_size)
           /\ ComparedCount(ret.windows) = 0 => ret.score = Inf

\* C26 witness: a backtest took two windows or more, fit raised in each of them,
\* nothing was pooled and the score is +infinity.
C26_Witness ==
    /\ ret.op = "backtest" /\ Len(ret.windows) >= 2
    /\ \A j \in 1..Len(ret.windows) : ~ret.windows[j].compared
    /\ ret.all_actuals = <<>> /\ ret.all_predictions = <<>>
    /\ ret.score = Inf

\* the last train_end of the loop of backtest_model on len rows
LastTrainEnd(len, test_size, min_train_size) ==
    min_train_size + (WindowCount(len, test_size, min_train_size) - 1) * test_size

\* what the most recent fit of m wrote is what fit writes on rows: the whole
\* state of a DeterministicModel; for a SARIMAModel the branch taken and
\* base_forecast (fallback) or fitted_model and model_params (seasonal)
FinalFitOn(m, rows) ==
    IF m.kind = "DeterministicModel"
    THEN m = DetFit(NewDeterministic(m.default_growth_rate), rows)
    ELSE LET f == SarimaFit(NewSARIMA, rows, lib)
         IN /\ m.is_fitted /\ m.fell_back = f.fell_back
            /\ f.fell_back => m.base_forecast = f.base_forecast
            /\ ~f.fell_back => /\ m.fitted_model = f.fitted_model
                               /\ m.model_params = f.model_params

\* candidate i of the last select_best_model call is a shipped model
Shipped(i) == models[i].kind \in {"DeterministicModel", "SARIMAModel"}

\* the table of the last select_best_model call has a backtest window
HasWindow == Len(ret.table) >= DEFAULT_MIN_TRAIN_SIZE + DEFAULT_TEST_SIZE

C29_ParamsFollowFit ==
    \A i \in 1..Len(models) :
        (models[i].kind = "DeterministicModel" /\ models[i].is_fitted)
            => /\ models[i].model_params # None
               /\ models[i].model_params.base_value = models[i].base_value
               /\ models[i].model_params.growth_rate = models[i].growth_rate

\* C30: after a select_best_model call on a selector with candidates, the
\* best_model attribute of the selector is the model the call returned.
C30_BestModelIsReturned ==
    (ret.op = "select" /\ Len(models) > 0) => selector.best_model = ret.chosen

====
